---- MODULE Spec2Model ----
(***************************************************************************)
(* Kissan Mitra bot (kissan_mitra.py): the per-user "awaiting" flag, the   *)
(* command / follow-up / callback handlers, the advice composers and the   *)
(* top-level error handler.                                                *)
(*                                                                         *)
(* The application is built without concurrent_updates (main, line 414),   *)
(* so updates are handled one at a time: a handler runs to completion,     *)
(* then the next update is taken.  cur holds the update being handled and  *)
(* what its handler did; NextUpdate takes the next one.                    *)
(***************************************************************************)
EXTENDS Integers, Sequences, FiniteSets, Bags, TLC

NumUsers == 2
Users == 1..NumUsers

(***************************************************************************)
(* Text.  A message text is a sequence of tokens: words and whitespace     *)
(* characters.  A word carries its letter case ("l" lower, "T" title,      *)
(* "U" upper) so that str.lower() and str.title() are real conversions.    *)
(***************************************************************************)
W(s) == [s |-> s, c |-> "l"]
Cap(s) == [s |-> s, c |-> "T"]
Up(s) == [s |-> s, c |-> "U"]
SP == [s |-> " ", c |-> "ws"]
NL == [s |-> "\n", c |-> "ws"]
IsSpace(t) == t.c = "ws"

\* the word or whitespace token t with its letters put in case c
Recase(t, c) == IF IsSpace(t) THEN t ELSE [t EXCEPT !.c = c]

\* str.lower(): every word to lower case, whitespace kept
RECURSIVE Lower(_)
Lower(txt) == IF txt = <<>> THEN <<>> ELSE <<Recase(Head(txt), "l")>> \o Lower(Tail(txt))

\* str.title(): every word capitalised, whitespace kept
RECURSIVE Title(_)
Title(txt) == IF txt = <<>> THEN <<>> ELSE <<Recase(Head(txt), "T")>> \o Title(Tail(txt))

RECURSIVE LStrip(_)
LStrip(txt) == IF txt # <<>> /\ IsSpace(Head(txt)) THEN LStrip(Tail(txt)) ELSE txt

RECURSIVE RStrip(_)
RStrip(txt) ==
  IF txt # <<>> /\ IsSpace(txt[Len(txt)]) THEN RStrip(SubSeq(txt, 1, Len(txt) - 1)) ELSE txt

\* str.strip()
Strip(txt) == RStrip(LStrip(txt))

\* str.split(): the words, in order, whitespace runs dropped
Split(txt) == SelectSeq(txt, LAMBDA t : ~IsSpace(t))

\* " ".join(words)
RECURSIVE Join(_)
Join(ws) ==
  IF ws = <<>> THEN <<>>
  ELSE IF Len(ws) = 1 THEN ws
  ELSE <<Head(ws), SP>> \o Join(Tail(ws))

\* mutant: every word of key occurs somewhere in text, in any order
Contains_AnyOrder(txt, key) ==
  \A i \in 1..Len(key) : IsSpace(key[i]) \/ \E j \in 1..Len(txt) : txt[j] = key[i]

\* key in text: key occurs as a contiguous run of text
Contains(txt, key) ==
  \E i \in 1..(Len(txt) - Len(key) + 1) : SubSeq(txt, i, i + Len(key) - 1) = key

(***************************************************************************)
(* Knowledge base: the static tables.  A missing key is "" (dict.get       *)
(* returning None) or <<>> (no growth table).                              *)
(***************************************************************************)
CROP_RECOMMENDATIONS(key) ==
  CASE key = <<W("wheat")>> -> "Urea 50kg/acre in two splits; use certified seeds; irrigate at tillering and before heading."
    [] key = <<W("rice")>> -> "DAP 40kg + Potash 20kg per acre; maintain flooded fields; use pest resistant seedlings."
    [] key = <<W("maize")>> -> "Apply NPK (20:20:20) at sowing and urea at 30 DAS; ensure good drainage and timely weeding."
    [] key = <<W("cotton")>> -> "Balanced NPK at sowing and top-dress nitrogen during vegetative growth; monitor boll formation."
    [] OTHER -> ""

\* sorted(CROP_RECOMMENDATIONS.keys()), joined for the "try these crops" line
CropSuggestions == <<"cotton", "maize", "rice", "wheat">>

\* DISEASE_SYMPTOMS in insertion order: <<key, advice>>
DISEASE_SYMPTOMS ==
  << <<(<<W("yellow"), SP, W("leaves")>>), "Could be nitrogen deficiency; test soil and consider urea.">>,
     <<(<<W("brown"), SP, W("spots")>>), "Possible fungal infection - consider fungicide and remove affected leaves.">>,
     <<(<<W("wilt")>>), "Possible bacterial/fungal wilt or water stress; check root health and irrigation.">> >>

\* PREPLANNED_MARKET: <<current, 7day_trend, mandi>>, or <<>> for a missing key
PREPLANNED_MARKET(key) ==
  CASE key = <<W("wheat")>> -> <<"Rs 2,100 per quintal", "down 2% (mild fall due to local harvest)",
                                 "Nearby mandi: Raipur Mandi - good demand from flour mills.">>
    [] key = <<W("urea")>> -> <<"Rs 8,500 per tonne", "stable",
                                "Logistics delays expected; check bulk supply availability.">>
    [] key = <<W("dap")>> -> <<"Rs 24,000 per tonne", "up 1.5% (export demand)",
                               "Stocks limited - consider ordering early.">>
    [] key = <<W("maize")>> -> <<"Rs 1,900 per quintal", "up 3% (strong animal feed demand)",
                                 "Higher demand in nearby feed plants.">>
    [] OTHER -> <<>>

\* CROP_GROWTH: the (stage, tip) pairs in table order, or <<>> for a missing key
CROP_GROWTH(key) ==
  CASE key = <<W("wheat")>> ->
         << <<"Sowing", "Prepare fine seedbed; ensure recommended seed rate.">>,
            <<"Tillering", "Apply first split of nitrogen; check for weeds.">>,
            <<"Booting/Heading", "Apply second split of nitrogen; scout for pests.">>,
            <<"Maturity", "Reduce irrigation and prepare for harvest.">> >>
    [] key = <<W("rice")>> ->
         << <<"Nursery/Transplant", "Use healthy seedlings; transplant at 25-30 DAS.">>,
            <<"Tillering", "Top dress nitrogen; maintain water levels.">>,
            <<"Panicle Initiation", "Monitor for pests and apply recommended fungicide if necessary.">>,
            <<"Maturity", "Drain field prior to harvest and dry properly.">> >>
    [] key = <<W("maize")>> ->
         << <<"Germination", "Ensure moisture at seed depth; light irrigation if dry.">>,
            <<"Vegetative", "Side-dress nitrogen at 30 DAS; control weeds.">>,
            <<"Tasseling", "Watch for borers; timely irrigation.">>,
            <<"Harvest", "Harvest when kernels are hard; sun-dry to required moisture.">> >>
    [] OTHER -> <<>>

\* PREPLANNED_WEATHER_NOTES.get(weather_key, default)
PREPLANNED_WEATHER_NOTES(key) ==
  CASE key = "hot_and_dry" -> "High temperature and low humidity - increase irrigation frequency and mulch soil."
    [] key = "hot_and_humid" -> "High temp + humidity - risk of fungal diseases; consider preventive fungicide and avoid overhead irrigation at night."
    [] key = "cold" -> "Low temperatures - protect young seedlings and avoid late irrigation that freezes."
    [] key = "heavy_rain" -> "Expect waterlogging - ensure drainage and delay nitrogen application until fields dry."
    [] OTHER -> "Normal conditions - follow regular schedule."

(***************************************************************************)
(* Outbound payloads and handler effects.  A handler is the sequence of    *)
(* its effects in source order; an effect that raises ends the handler.    *)
(***************************************************************************)
NoneTag == "None"
Tags == {"weather", "recommend", "price", "disease"}

\* msg: which template; subj: interpolated (title-cased) text; body: the
\* table texts interpolated, in order; ref: the lower-case text interpolated
Payload(msg, subj, body, ref) == [msg |-> msg, subj |-> subj, body |-> body, ref |-> ref]
Static(msg) == Payload(msg, <<>>, <<>>, <<>>)

Send(p) == [op |-> "send", payload |-> p, tag |-> NoneTag]
Edit(p) == [op |-> "edit", payload |-> p, tag |-> NoneTag]
Answer == [op |-> "answer", payload |-> Static(""), tag |-> NoneTag]
Get == [op |-> "get", payload |-> Static(""), tag |-> NoneTag]
Raise == [op |-> "raise", payload |-> Static(""), tag |-> NoneTag]
SetAwaiting(tag) == [op |-> "set", payload |-> Static(""), tag |-> tag]
PopAwaiting == [op |-> "pop", payload |-> Static(""), tag |-> NoneTag]
\* entering composer `name` with argument arg (no effect of its own)
Call(name, arg) == [op |-> "call", payload |-> Payload("", arg, <<>>, <<>>), tag |-> name]

\* the effects that call the chat platform, and so may raise
IsTransport(step) == step.op \in {"send", "edit", "answer"}

(***************************************************************************)
(* Weather observation: the JSON body of a 200 response.  A field is       *)
(* Absent (dict.get gives None) or Some(value).                            *)
(***************************************************************************)
Absent == [some |-> FALSE, val |-> 0]
Some(x) == [some |-> TRUE, val |-> x]

\* f"{x}" of an optional number
Fmt(x) == IF x.some THEN ToString(x.val) ELSE "None"

\* mutant: the hot-and-dry rule needs a temperature above 35
WeatherKey_StrictHot(temp, humidity) ==
  IF temp.some /\ humidity.some
  THEN IF temp.val > 35 /\ humidity.val <= 40 THEN "hot_and_dry"
       ELSE IF temp.val >= 30 /\ humidity.val >= 60 THEN "hot_and_humid"
       ELSE IF temp.val <= 10 THEN "cold"
       ELSE ""
  ELSE ""

\* the advisory bucket, first match wins; "" is weather_key = None
WeatherKey(temp, humidity) ==
  IF temp.some /\ humidity.some
  THEN IF temp.val >= 35 /\ humidity.val <= 40 THEN "hot_and_dry"
       ELSE IF temp.val >= 30 /\ humidity.val >= 60 THEN "hot_and_humid"
       ELSE IF temp.val <= 10 THEN "cold"
       ELSE ""
  ELSE ""

\* data.get("weather", [{}])[0].get("description", "N/A").title(); cond is
\* "nokey" (no "weather" key), "nodesc" (no description in its first entry)
\* or "desc"; "empty" (an empty "weather" list) raises before this is used
WeatherMain(cond) == IF cond = "desc" THEN "Clear Sky" ELSE "N/A"

\* fmt_ts: "N/A" for a missing or zero timestamp, else the local time
fmt_ts(ts) == IF ~ts.some \/ ts.val = 0 THEN "N/A" ELSE "HH:MM TZ"

\* coord_text
CoordText(coord) == IF coord THEN " (lat: .., lon: ..)" ELSE ""

\* the lines of the weather report, in order
WeatherLines(gw) ==
  <<CoordText(gw.coord), WeatherMain(gw.cond), Fmt(gw.temp), Fmt(gw.feels), Fmt(gw.humidity),
    Fmt(gw.pressure), Fmt(gw.wind), fmt_ts(gw.sunrise), fmt_ts(gw.sunset),
    PREPLANNED_WEATHER_NOTES(WeatherKey(gw.temp, gw.humidity))>>

\* gw: what the provider does with the request: kind "neterr" (session.get
\* raises), "status" (not 200), "ok" with the fields of the JSON body: main
\* (the "main" object is there), temp, feels, humidity, pressure (its
\* entries), cond, wind, sunrise, sunset, coord
fetch_and_send_weather(city, key, gw) ==
  <<Call("fetch_and_send_weather", city)>> \o
  IF ~key THEN <<Send(Static("Weather API key not configured. Set OWM_API_KEY in .env."))>>
  ELSE IF gw.kind = "neterr" THEN <<Get, Raise>>
  ELSE IF gw.kind = "status"
    THEN <<Get, Send(Payload("Could not fetch weather. Check the city name.", Title(city), <<>>, <<>>))>>
  ELSE IF gw.cond = "empty" THEN <<Get, Raise>>
  ELSE IF ~gw.main THEN <<Get, Raise>>
  ELSE <<Get, Send(Payload("Weather in", Title(city), WeatherLines(gw), <<>>))>>

\* mutant: the growth-stage lines from the last pair to the first
RECURSIVE StageLines_Reversed(_)
StageLines_Reversed(growth) ==
  IF growth = <<>> THEN <<>>
  ELSE StageLines_Reversed(Tail(growth)) \o <<Head(growth)[1], Head(growth)[2]>>

\* the growth-stage lines, one per (stage, tip) pair, in table order
RECURSIVE StageLines(_)
StageLines(growth) ==
  IF growth = <<>> THEN <<>> ELSE <<Head(growth)[1], Head(growth)[2]>> \o StageLines(Tail(growth))

send_recommendation(crop0) ==
  LET crop == Lower(crop0)
      rec == CROP_RECOMMENDATIONS(crop)
      growth == CROP_GROWTH(crop)
      market == PREPLANNED_MARKET(crop)
  IN <<Call("send_recommendation", crop0)>> \o
     IF rec # ""
     THEN <<Send(Payload("Recommendations for", Title(crop),
                         <<rec>>
                         \o (IF growth # <<>> THEN <<"Growth stages & quick tips:">> \o StageLines(growth) ELSE <<>>)
                         \o (IF market # <<>> THEN <<"Market note:">> \o market ELSE <<>>),
                         crop))>>
     ELSE <<Send(Payload("Sorry, no data for. Try these crops:", Title(crop), CropSuggestions, <<>>))>>

\* MARKET_PRICES is defined nowhere, so the fallback table is always None
send_price(commodity0) ==
  LET commodity == Lower(commodity0)
      p == PREPLANNED_MARKET(commodity)
  IN <<Call("send_price", commodity0)>> \o
     IF p # <<>>
     THEN <<Send(Payload("Market snapshot", Title(commodity), p \o <<"Practical tip">>, <<>>))>>
     ELSE <<Send(Payload("No price data for", Title(commodity), <<>>, <<>>))>>

Checklist ==
  <<"1. Inspect nearby plants for spread.",
    "2. Remove badly affected leaves and dispose safely.",
    "3. Test soil (pH/nutrient) if deficiency suspected.",
    "4. For unknown issues, upload a photo (future feature).">>

\* the first key of table (from index i on) that occurs in symptoms
RECURSIVE MatchFrom(_, _, _)
MatchFrom(table, i, symptoms) ==
  IF i > Len(table) THEN 0
  ELSE IF Contains(symptoms, table[i][1]) THEN i
  ELSE MatchFrom(table, i + 1, symptoms)

send_disease_advice(symptoms) ==
  LET i == MatchFrom(DISEASE_SYMPTOMS, 1, symptoms)
  IN <<Call("send_disease_advice", symptoms)>> \o
     IF i > 0
     THEN <<Send(Payload("Possible cause:", <<>>, <<DISEASE_SYMPTOMS[i][2]>> \o Checklist, <<>>))>>
     ELSE <<Send(Static("Could not match symptoms to a known issue. Please provide more details or send a photo."))>>

(***************************************************************************)
(* Handlers: each gives its effects in source order.  args is the text     *)
(* after the command; context.args is its whitespace split.                *)
(***************************************************************************)
StaticCommands == {"start", "help", "farmer", "shop"}

\* mutant: /start resets the dialogue
StaticReply_StartResets(name) ==
  CASE name = "start" -> <<PopAwaiting, Send(Static("Welcome to Kissan Mitra Bot! [main menu keyboard]"))>>
    [] name = "help" -> <<Send(Static("Kissan Mitra Commands"))>>
    [] name = "farmer" -> <<Send(Static("Farmer Support"))>>
    [] name = "shop" -> <<Send(Static("Shop Owner Help"))>>

StaticReply(name) ==
  CASE name = "start" -> <<Send(Static("Welcome to Kissan Mitra Bot! [main menu keyboard]"))>>
    [] name = "help" -> <<Send(Static("Kissan Mitra Commands"))>>
    [] name = "farmer" -> <<Send(Static("Farmer Support"))>>
    [] name = "shop" -> <<Send(Static("Shop Owner Help"))>>

weather(args, key, gw) ==
  IF Len(Split(args)) > 0
  THEN fetch_and_send_weather(Join(Split(args)), key, gw)
  ELSE <<Send(Static("Which city would you like weather for? (Example: Delhi)")),
         SetAwaiting("weather")>>

\* mutant: the prompt is sent but the flag is never stored
recommend_PromptOnly(args) ==
  IF Len(Split(args)) > 0
  THEN send_recommendation(Lower(Join(Split(args))))
  ELSE <<Send(Static("Which crop do you want recommendations for? (Example: wheat)"))>>

\* mutant: the flag is stored before the prompt is sent
disease_SetFirst(args) ==
  IF Len(Split(args)) > 0
  THEN send_disease_advice(Lower(Join(Split(args))))
  ELSE <<SetAwaiting("disease"),
         Send(Static("Please describe the symptoms (e.g. 'yellow leaves' or 'brown spots'):"))>>

recommend(args) ==
  IF Len(Split(args)) > 0
  THEN send_recommendation(Lower(Join(Split(args))))
  ELSE <<Send(Static("Which crop do you want recommendations for? (Example: wheat)")),
         SetAwaiting("recommend")>>

\* mutant: the handler stores a tag the follow-up handler does not know
price_UnknownTag(args) ==
  IF Len(Split(args)) > 0
  THEN send_price(Lower(Join(Split(args))))
  ELSE <<Send(Static("Which commodity price would you like? (Example: urea)")),
         SetAwaiting("commodity")>>

\* mutant: a command with an argument drops the pending flag
price_ClearsPending(args) ==
  IF Len(Split(args)) > 0
  THEN <<PopAwaiting>> \o send_price(Lower(Join(Split(args))))
  ELSE <<Send(Static("Which commodity price would you like? (Example: urea)")),
         SetAwaiting("price")>>

price(args) ==
  IF Len(Split(args)) > 0
  THEN send_price(Lower(Join(Split(args))))
  ELSE <<Send(Static("Which commodity price would you like? (Example: urea)")),
         SetAwaiting("price")>>

disease(args) ==
  IF Len(Split(args)) > 0
  THEN send_disease_advice(Lower(Join(Split(args))))
  ELSE <<Send(Static("Please describe the symptoms (e.g. 'yellow leaves' or 'brown spots'):")),
         SetAwaiting("disease")>>

\* the handler registered for /name
CommandSteps(name, args, key, gw) ==
  CASE name = "weather" -> weather(args, key, gw)
    [] name = "recommend" -> recommend(args)
    [] name = "price" -> price(args)
    [] name = "disease" -> disease(args)
    [] OTHER -> StaticReply(name)

\* the composer the follow-up handler enters for each stored tag
FollowUpComposer(awaiting, text, key, gw) ==
  CASE awaiting = "weather" -> fetch_and_send_weather(text, key, gw)
    [] awaiting = "recommend" -> send_recommendation(Lower(text))
    [] awaiting = "price" -> send_price(Lower(text))
    [] awaiting = "disease" -> send_disease_advice(Lower(text))
    [] OTHER -> <<Send(Static("Sorry, I didn't understand. Try /help for commands."))>>

\* mutant: the flag is cleared only after the composer has returned
follow_up_handler_PopAfter(awaiting, rawtext, key, gw) ==
  IF awaiting = NoneTag THEN <<>>
  ELSE FollowUpComposer(awaiting, Strip(rawtext), key, gw) \o <<PopAwaiting>>

\* mutant: the price and recommend branches are exchanged
follow_up_handler_Swapped(awaiting, rawtext, key, gw) ==
  IF awaiting = NoneTag THEN <<>>
  ELSE <<PopAwaiting>> \o
       FollowUpComposer(CASE awaiting = "price" -> "recommend"
                          [] awaiting = "recommend" -> "price"
                          [] OTHER -> awaiting, Strip(rawtext), key, gw)

\* mutant: unsolicited text is answered instead of ignored
follow_up_handler_ReplyUnknown(awaiting, rawtext, key, gw) ==
  IF awaiting = NoneTag
  THEN <<Send(Static("Sorry, I didn't understand. Try /help for commands."))>>
  ELSE <<PopAwaiting>> \o FollowUpComposer(awaiting, Strip(rawtext), key, gw)

follow_up_handler(awaiting, rawtext, key, gw) ==
  LET text == Strip(rawtext)
  IN IF awaiting = NoneTag THEN <<>>
     ELSE <<PopAwaiting>> \o FollowUpComposer(awaiting, text, key, gw)

CallbackTokens == {"cmd_weather", "cmd_recommend", "cmd_price", "cmd_disease", "cmd_other"}

CallbackText(data) ==
  CASE data = "cmd_weather" -> "Send /weather <city> Example: /weather Delhi"
    [] data = "cmd_recommend" -> "Send /recommend <crop> Example: /recommend wheat"
    [] data = "cmd_price" -> "Send /price <commodity> Example: /price urea"
    [] data = "cmd_disease" -> "Send /disease <symptoms> Example: /disease brown spots"
    [] OTHER -> "Unknown command."

\* mutant: the button sends a fresh message and then also edits the menu
callback_handler_ReplyAndEdit(data) ==
  <<Answer, Send(Static(CallbackText(data))), Edit(Static(CallbackText(data)))>>

\* mutant: a recognised button starts the follow-up flow of its command
callback_handler_SetsPending(data) ==
  <<Answer, Edit(Static(CallbackText(data)))>>
  \o (CASE data = "cmd_weather" -> <<SetAwaiting("weather")>>
        [] data = "cmd_recommend" -> <<SetAwaiting("recommend")>>
        [] data = "cmd_price" -> <<SetAwaiting("price")>>
        [] data = "cmd_disease" -> <<SetAwaiting("disease")>>
        [] OTHER -> <<>>)

callback_handler(data) == <<Answer, Edit(Static(CallbackText(data)))>>

(***************************************************************************)
(* Running a handler.  r is what the handler has done so far: aw the       *)
(* user's awaiting value, sent the payloads delivered, handed the          *)
(* payloads handed to the chat platform, writes the mutations of the       *)
(* user's store, calls the composers entered, requests the provider        *)
(* requests, n the platform calls made, raised whether an exception left   *)
(* the handler.  failAt is the platform call that raises (0: none).        *)
(***************************************************************************)
Run0(aw) ==
  [aw |-> aw, sent |-> <<>>, handed |-> <<>>, writes |-> 0, acked |-> FALSE,
   calls |-> <<>>, requests |-> 0, n |-> 0, raised |-> FALSE, apology |-> FALSE,
   logged |-> FALSE]

Effect(step, r) ==
  CASE step.op \in {"send", "edit"} ->
         [r EXCEPT !.sent = Append(@, step.payload), !.handed = Append(@, step.payload),
                   !.n = @ + 1]
    [] step.op = "answer" -> [r EXCEPT !.acked = TRUE, !.n = @ + 1]
    [] step.op = "set" -> [r EXCEPT !.aw = step.tag, !.writes = @ + 1]
    [] step.op = "pop" -> [r EXCEPT !.aw = NoneTag, !.writes = @ + 1]
    [] step.op = "get" -> [r EXCEPT !.requests = @ + 1]
    [] step.op = "call" -> [r EXCEPT !.calls = Append(@, <<step.tag, step.payload.subj>>)]

\* a platform call that raises: the payload was handed over, not delivered
Failed(step, r) ==
  [r EXCEPT !.raised = TRUE, !.n = @ + 1,
            !.handed = IF step.op = "answer" THEN @ ELSE Append(@, step.payload)]

RECURSIVE Exec(_, _, _)
Exec(steps, r, failAt) ==
  IF steps = <<>> THEN r
  ELSE LET step == Head(steps)
       IN IF step.op = "raise" THEN [r EXCEPT !.raised = TRUE]
          ELSE IF IsTransport(step) /\ r.n + 1 = failAt THEN Failed(step, r)
          ELSE Exec(Tail(steps), Effect(step, r), failAt)

\* mutant: the error handler logs and tells the user nothing
error_handler_Silent(r, apologyOk) == [r EXCEPT !.logged = TRUE]

\* the top-level error handler: log, then try to send the apology;
\* an exception while sending it is swallowed
error_handler(r, apologyOk) ==
  LET p == Static("Sorry, an error occurred. The admin has been notified.")
  IN IF apologyOk
     THEN [r EXCEPT !.logged = TRUE, !.handed = Append(@, p), !.sent = Append(@, p),
                    !.apology = TRUE]
     ELSE [r EXCEPT !.logged = TRUE, !.handed = Append(@, p)]

\* process_update: the handler, then the error handler if it raised
Handle(steps, aw, failAt, apologyOk) ==
  LET r == Exec(steps, Run0(aw), failAt)
  IN IF r.raised THEN error_handler(r, apologyOk) ELSE r

(***************************************************************************)
(* Inputs.                                                                 *)
(***************************************************************************)
\* message texts as the chat platform delivers them (already trimmed)
Texts ==
  { <<W("urea")>>, <<Cap("urea")>>, <<W("wheat")>>, <<Up("wheat")>>, <<W("cotton")>>,
    <<W("rice")>>, <<Cap("maize")>>,
    <<W("xyz")>>, <<Cap("delhi")>>, <<W("new"), SP, W("delhi")>>,
    <<W("yellow"), SP, W("leaves")>>, <<W("yellow"), NL, W("leaves")>>,
    <<W("yellow"), SP, SP, W("leaves")>>,
    <<W("my"), SP, W("leaves"), SP, W("look"), SP, W("yellow")>>,
    <<W("brown"), SP, W("spots")>>, <<W("wilt")>> }

\* what follows a command: nothing, or a text
ArgTexts == {<<>>} \cup Texts

Observations ==
  { [temp |-> Some(36), humidity |-> Some(30)], [temp |-> Some(32), humidity |-> Some(70)],
    [temp |-> Some(5), humidity |-> Some(50)], [temp |-> Some(20), humidity |-> Some(50)],
    [temp |-> Some(5), humidity |-> Absent], [temp |-> Absent, humidity |-> Some(50)] }

\* a provider outcome without a usable body
NoBody(kind) ==
  [kind |-> kind, main |-> FALSE, temp |-> Absent, feels |-> Absent, humidity |-> Absent,
   pressure |-> Absent, cond |-> "nokey", wind |-> Absent, sunrise |-> Absent,
   sunset |-> Absent, coord |-> FALSE]

\* a 200 response whose body has every field, with the given temp and humidity
FullBody(temp, humidity) ==
  [kind |-> "ok", main |-> TRUE, temp |-> temp, feels |-> Some(21), humidity |-> humidity,
   pressure |-> Some(1012), cond |-> "desc", wind |-> Some(3), sunrise |-> Some(1),
   sunset |-> Some(2), coord |-> TRUE]

\* what the weather provider does with one request
Gateway ==
  { NoBody(k) : k \in {"neterr", "status", "ok"} }
  \cup { FullBody(o.temp, o.humidity) : o \in Observations }

\* no provider request was made
NoGateway == NoBody("none")

\* the platform call of a handler that raises (0: none); a handler makes at most 2
FailAts == 0..2

(***************************************************************************)
(* State.                                                                  *)
(***************************************************************************)
VARIABLES
  awaiting,   \* context.user_data["awaiting"] of each user (NoneTag: no such key)
  asker,      \* history: the command whose handler stored the user's awaiting value
  prompted,   \* history: the prompt last delivered to each user since the user's
              \* last consumed free text
  owmKey,     \* whether OWM_API_KEY is set
  tasks,      \* handlers suspended at an await (concurrent updates only)
  invoked,    \* history: composer calls made for each user's stored awaiting value
  cur         \* the update being handled and what its handler did (pre, by: the
              \* user's awaiting and asker values when the handler started; gw:
              \* what the weather provider did with the handler's request)

vars == <<awaiting, asker, prompted, owmKey, cur, tasks, invoked>>

Idle ==
  [user |-> 0, kind |-> "none", name |-> "", text |-> <<>>, pre |-> NoneTag, by |-> "None",
   gw |-> NoGateway, run |-> Run0(NoneTag)]

\* context.user_data is the dict of the update's user
UserData(store, u) == store[u]
\* mutant: the flag lives in one dict shared by all users
Store_Shared(store, u, v) == [w \in Users |-> v]

Store(store, u, v) == [store EXCEPT ![u] = v]

Init ==
  /\ awaiting = [u \in Users |-> NoneTag]
  /\ asker = [u \in Users |-> "None"]
  /\ prompted = [u \in Users |-> NoneTag]
  /\ owmKey \in BOOLEAN
  /\ cur = Idle
  /\ tasks = EmptyBag
  /\ invoked = [u \in Users |-> 0]

\* the tag whose clarifying prompt p is, NoneTag for any other payload
PromptTag(p) ==
  CASE p.msg = "Which city would you like weather for? (Example: Delhi)" -> "weather"
    [] p.msg = "Which crop do you want recommendations for? (Example: wheat)" -> "recommend"
    [] p.msg = "Which commodity price would you like? (Example: urea)" -> "price"
    [] p.msg = "Please describe the symptoms (e.g. 'yellow leaves' or 'brown spots'):" -> "disease"
    [] OTHER -> NoneTag

\* the prompt history after run r: a consumed free text forgets it, a
\* delivered prompt replaces it
Prompted(old, kind, r) ==
  IF kind = "text" /\ r.calls # <<>> THEN NoneTag
  ELSE IF \E i \in DOMAIN r.sent : PromptTag(r.sent[i]) # NoneTag
  THEN PromptTag(r.sent[CHOOSE i \in DOMAIN r.sent : PromptTag(r.sent[i]) # NoneTag])
  ELSE old

\* one update of user u handled to completion
Dispatch(u, kind, name, text, steps, gw, failAt, apologyOk) ==
  /\ LET r == Handle(steps, UserData(awaiting, u), failAt, apologyOk)
     IN /\ awaiting' = IF r.writes > 0 THEN Store(awaiting, u, r.aw) ELSE awaiting
        /\ asker' = IF r.writes > 0
                    THEN [asker EXCEPT ![u] = IF r.aw = NoneTag THEN "None" ELSE name]
                    ELSE asker
        /\ cur' = [user |-> u, kind |-> kind, name |-> name, text |-> text,
                   pre |-> UserData(awaiting, u), by |-> asker[u],
                   gw |-> IF r.requests > 0 THEN gw ELSE NoGateway, run |-> r]
        /\ prompted' = [prompted EXCEPT ![u] = Prompted(@, kind, r)]
  /\ UNCHANGED <<owmKey, tasks, invoked>>

StaticCmd(u) ==
  /\ cur.kind = "none"
  /\ \E name \in StaticCommands, f \in FailAts, a \in BOOLEAN :
       Dispatch(u, "command", name, <<>>, StaticReply(name), NoGateway, f, a)

WeatherCmd(u) ==
  /\ cur.kind = "none"
  /\ \E args \in ArgTexts, gw \in Gateway, f \in FailAts, a \in BOOLEAN :
       Dispatch(u, "command", "weather", args, weather(args, owmKey, gw), gw, f, a)

RecommendCmd(u) ==
  /\ cur.kind = "none"
  /\ \E args \in ArgTexts, f \in FailAts, a \in BOOLEAN :
       Dispatch(u, "command", "recommend", args, recommend(args), NoGateway, f, a)

PriceCmd(u) ==
  /\ cur.kind = "none"
  /\ \E args \in ArgTexts, f \in FailAts, a \in BOOLEAN :
       Dispatch(u, "command", "price", args, price(args), NoGateway, f, a)

DiseaseCmd(u) ==
  /\ cur.kind = "none"
  /\ \E args \in ArgTexts, f \in FailAts, a \in BOOLEAN :
       Dispatch(u, "command", "disease", args, disease(args), NoGateway, f, a)

FollowUp(u) ==
  /\ cur.kind = "none"
  /\ \E text \in Texts, gw \in Gateway, f \in FailAts, a \in BOOLEAN :
       Dispatch(u, "text", "", text, follow_up_handler(UserData(awaiting, u), text, owmKey, gw), gw, f, a)

Callback(u) ==
  /\ cur.kind = "none"
  /\ \E data \in CallbackTokens, f \in FailAts, a \in BOOLEAN :
       Dispatch(u, "callback", data, <<>>, callback_handler(data), NoGateway, f, a)

\* the handler has returned: the application takes the next update
NextUpdate ==
  /\ cur.kind # "none"
  /\ cur' = Idle
  /\ UNCHANGED <<awaiting, asker, prompted, owmKey, tasks, invoked>>

Next ==
  \/ \E u \in Users : StaticCmd(u)
  \/ \E u \in Users : WeatherCmd(u)
  \/ \E u \in Users : RecommendCmd(u)
  \/ \E u \in Users : PriceCmd(u)
  \/ \E u \in Users : DiseaseCmd(u)
  \/ \E u \in Users : FollowUp(u)
  \/ \E u \in Users : Callback(u)
  \/ NextUpdate

Spec == Init /\ [][Next]_vars

(***************************************************************************)
(* The weather report over a range of observations: /weather Delhi with    *)
(* every temperature and humidity up to the bounds, and with every         *)
(* combination of present and missing fields.                              *)
(***************************************************************************)
MaxTemp == 45
MaxHumidity == 100

TempValues == {Absent} \cup { Some(x) : x \in 0..MaxTemp }
HumidityValues == {Absent} \cup { Some(x) : x \in 0..MaxHumidity }

PartialBodies ==
  [ kind : {"ok"}, main : BOOLEAN, temp : {Absent, Some(5)}, feels : {Absent, Some(4)},
    humidity : {Absent, Some(50)}, pressure : {Absent, Some(1012)},
    cond : {"nokey", "empty", "nodesc", "desc"}, wind : {Absent, Some(3)},
    sunrise : {Absent, Some(0), Some(1)}, sunset : {Absent, Some(0), Some(2)},
    coord : BOOLEAN ]

WeatherReplies ==
  { FullBody(t, h) : t \in TempValues, h \in HumidityValues } \cup PartialBodies

WeatherReport(u) ==
  /\ cur.kind = "none"
  /\ \E gw \in WeatherReplies, f \in FailAts, a \in BOOLEAN :
       Dispatch(u, "command", "weather", <<Cap("delhi")>>,
                weather(<<Cap("delhi")>>, owmKey, gw), gw, f, a)

NextWeather ==
  \/ \E u \in Users : WeatherReport(u)
  \/ NextUpdate

SpecWeather == Init /\ [][NextWeather]_vars

(***************************************************************************)
(* Updates handled concurrently: a handler runs without interruption up to *)
(* its next await (a platform call or the provider request), is suspended  *)
(* there, and other handlers run before it resumes.                        *)
(***************************************************************************)
MaxInFlight == 2

ConcTexts == { <<Cap("delhi")>> }
ConcTags == {"weather", "recommend"}
ConcGateway == { NoBody("status"), NoBody("neterr") }

\* a handler's progress: aw is the user's awaiting value, inv the user's
\* composer calls, rest what follows the await it is suspended at
Progress0(aw, inv) ==
  [aw |-> aw, inv |-> inv, calls |-> <<>>, rest |-> <<>>, waiting |-> FALSE]

\* run steps up to the next await; only a free-text handler's composer call
\* is one made for the stored awaiting value
RECURSIVE RunToAwait(_, _, _)
RunToAwait(steps, kind, s) ==
  IF steps = <<>> THEN s
  ELSE LET step == Head(steps)
       IN IF step.op = "raise" THEN s
          ELSE IF IsTransport(step) \/ step.op = "get"
          THEN [s EXCEPT !.rest = Tail(steps), !.waiting = TRUE]
          ELSE RunToAwait(Tail(steps), kind,
                 CASE step.op = "set" -> [s EXCEPT !.aw = step.tag, !.inv = 0]
                   [] step.op = "pop" -> [s EXCEPT !.aw = NoneTag]
                   [] step.op = "call" ->
                        [s EXCEPT !.calls = Append(@, <<step.tag, step.payload.subj>>),
                                  !.inv = IF kind = "text" THEN @ + 1 ELSE @]
                   [] OTHER -> s)

\* a handler of user u starts and runs to its first await; cur keeps the
\* last free text begun
Begin(u, kind, text, steps) ==
  /\ LET s == RunToAwait(steps, kind, Progress0(awaiting[u], invoked[u]))
     IN /\ awaiting' = [awaiting EXCEPT ![u] = s.aw]
        /\ invoked' = [invoked EXCEPT ![u] = s.inv]
        /\ tasks' = IF s.waiting
                     THEN tasks (+) SetToBag({[user |-> u, kind |-> kind, rest |-> s.rest]})
                     ELSE tasks
        /\ cur' = IF kind = "text"
                   THEN [Idle EXCEPT !.user = u, !.kind = kind, !.text = text,
                                     !.pre = awaiting[u], !.run.calls = s.calls,
                                     !.run.n = IF s.waiting THEN 1 ELSE 0]
                   ELSE cur
  /\ UNCHANGED <<asker, prompted, owmKey>>

\* an argument-less command
BeginCommand(u) ==
  /\ BagCardinality(tasks) < MaxInFlight
  /\ \E name \in ConcTags :
       Begin(u, "command", <<>>, CommandSteps(name, <<>>, owmKey, NoGateway))

BeginText(u) ==
  /\ BagCardinality(tasks) < MaxInFlight
  /\ \E text \in ConcTexts, gw \in ConcGateway :
       Begin(u, "text", text, follow_up_handler(UserData(awaiting, u), text, owmKey, gw))

\* the await of a suspended handler completes: it raises and the handler
\* is over, or it returns and the handler runs to its next await
Resume(t) ==
  /\ BagIn(t, tasks)
  /\ \E ok \in BOOLEAN :
       LET s == RunToAwait(IF ok THEN t.rest ELSE <<>>, t.kind,
                           Progress0(awaiting[t.user], invoked[t.user]))
       IN /\ awaiting' = [awaiting EXCEPT ![t.user] = s.aw]
          /\ invoked' = [invoked EXCEPT ![t.user] = s.inv]
          /\ tasks' = (tasks (-) SetToBag({t}))
                       (+) (IF s.waiting THEN SetToBag({[t EXCEPT !.rest = s.rest]})
                            ELSE EmptyBag)
  /\ UNCHANGED <<asker, prompted, owmKey, cur>>

NextConcurrent ==
  \/ \E u \in Users : BeginCommand(u)
  \/ \E u \in Users : BeginText(u)
  \/ \E t \in BagToSet(tasks) : Resume(t)

SpecConcurrent == Init /\ [][NextConcurrent]_vars

(***************************************************************************)
(* Properties.                                                             *)
(***************************************************************************)
TypeOK ==
  /\ awaiting \in [Users -> Tags \cup {NoneTag}]
  /\ asker \in [Users -> Tags \cup {"None"}]
  /\ prompted \in [Users -> Tags \cup {NoneTag}]
  /\ owmKey \in BOOLEAN
  /\ cur.user \in Users \cup {0}

\* the update just handled
IsArgLess == cur.kind = "command" /\ cur.name \in Tags /\ Split(cur.text) = <<>>
IsWithArg == cur.kind = "command" /\ cur.name \in Tags /\ Split(cur.text) # <<>>
IsText == cur.kind = "text"
IsCallback == cur.kind = "callback"

\* the composer a command enters when it is given an argument
ComposerOf(cmd) == CommandSteps(cmd, <<W("x")>>, TRUE, CHOOSE gw \in Gateway : TRUE)[1].tag

\* C1 (as stated): after an argument-less command Y issued by a user whose
\* PendingIntent was set by an earlier argument-less command X, the stored
\* PendingIntent is exactly the tag of Y.
C1_LastWriteWins ==
  (IsArgLess /\ cur.pre \in Tags) => awaiting[cur.user] = cur.name

\* C1 (amended): each user holds one PendingIntent slot; an argument-less
\* command Y whose prompt is delivered leaves exactly the tag of Y in it,
\* whatever tag X was stored before; if sending the prompt raises, the slot
\* keeps the value it had.
C1_SingleSlotLastWriteWins ==
  /\ awaiting \in [Users -> Tags \cup {NoneTag}]
  /\ (IsArgLess /\ ~cur.run.raised) =>
        (awaiting[cur.user] = cur.name /\ asker[cur.user] = cur.name /\ cur.run.writes = 1)
  /\ (IsArgLess /\ cur.run.raised) => (awaiting[cur.user] = cur.pre /\ cur.run.writes = 0)

C1_Overwritten ==
  IsArgLess /\ cur.pre \in Tags /\ cur.pre # cur.name /\ awaiting[cur.user] = cur.name

\* C2: a free-text message handled while the user's PendingIntent is set
\* leaves that user Idle, whether the composer replied, reported a miss or
\* a weather failure, or raised.
C2_TextReturnsToIdle ==
  (IsText /\ cur.pre # NoneTag) => (awaiting[cur.user] = NoneTag /\ asker[cur.user] = "None")

C2_IdleAfterException ==
  IsText /\ cur.pre = "weather" /\ cur.run.raised /\ ~cur.run.apology
  /\ awaiting[cur.user] = NoneTag

\* C3: a free-text message consumed in state Awaiting-X enters exactly one
\* composer, the one command X enters when given an argument, where X is
\* the command whose argument-less invocation stored the user's tag; and
\* the tag stored by command X is X's own.
C3_RoutingBijection ==
  /\ \A u \in Users : awaiting[u] = asker[u]
  /\ (IsText /\ cur.pre # NoneTag) =>
        /\ cur.by \in Tags
        /\ Len(cur.run.calls) = 1
        /\ cur.run.calls[1][1] = ComposerOf(cur.by)
  /\ \A c, d \in Tags : ComposerOf(c) = ComposerOf(d) => c = d

C3_PriceRouted ==
  IsText /\ cur.by = "price" /\ Len(cur.run.calls) = 1 /\ cur.run.calls[1][1] = "send_price"

\* C4: a plain text message from a user whose PendingIntent is None is
\* ignored: nothing is handed to the platform, no composer is entered and
\* the PendingIntent stays None.
C4_IdleTextIgnored ==
  (IsText /\ cur.pre = NoneTag) =>
    /\ cur.run.handed = <<>> /\ cur.run.sent = <<>>
    /\ cur.run.calls = <<>> /\ cur.run.requests = 0
    /\ cur.run.writes = 0 /\ ~cur.run.raised
    /\ awaiting[cur.user] = NoneTag

C4_IdleTextSeen == IsText /\ cur.pre = NoneTag /\ cur.text = <<W("urea")>>

\* C5: /weather, /recommend, /price or /disease with an argument leaves the
\* user's PendingIntent as it was (None or any tag), whether the composer
\* replies or fails.
C5_CommandWithArgKeepsPending ==
  IsWithArg => (awaiting[cur.user] = cur.pre /\ asker[cur.user] = cur.by /\ cur.run.writes = 0)

C5_PendingKeptOnFailure ==
  IsWithArg /\ cur.name = "weather" /\ cur.pre = "price" /\ cur.run.raised
  /\ awaiting[cur.user] = "price"

\* the payloads a handler hands to the platform when nothing raises
RECURSIVE Payloads(_)
Payloads(steps) ==
  IF steps = <<>> THEN <<>>
  ELSE (IF Head(steps).op \in {"send", "edit"} THEN <<Head(steps).payload>> ELSE <<>>)
       \o Payloads(Tail(steps))

\* C6 (as stated): a free text t consumed in state Awaiting-X produces the
\* advice text that command X produces when issued directly with argument t
\* (the weather provider answering alike).
C6_PathsEquivalent ==
  (IsText /\ cur.pre \in Tags /\ ~cur.run.raised) =>
    cur.run.handed = Payloads(CommandSteps(cur.by, cur.text, owmKey, cur.gw))

\* C7: an update of one user leaves the PendingIntent (and its history) of
\* every other user as it was, and its handler starts from its own user's
\* stored value.
C7_UsersIndependent ==
  [][ /\ \A u \in Users :
           cur'.user # u => (awaiting'[u] = awaiting[u] /\ asker'[u] = asker[u])
      /\ cur'.kind # "none" => cur'.pre = awaiting[cur'.user] ]_vars

C7_ConsumedBesidePending ==
  \E u \in Users :
    /\ IsText /\ cur.user # u /\ cur.pre \in Tags
    /\ awaiting[cur.user] = NoneTag /\ awaiting[u] \in Tags

\* an update the dispatcher ignores
IsIgnored == IsText /\ cur.pre = NoneTag

\* C8 (as stated): every update produces exactly one response payload, or
\* none when it is ignored, and mutates the store at most once.
C8_ExactlyOneResponse ==
  cur.kind # "none" =>
    /\ Len(cur.run.handed) = (IF IsIgnored THEN 0 ELSE 1)
    /\ cur.run.writes <= 1

\* C8 (amended): every update has at most one response payload delivered
\* (none when it is ignored) and at most one store mutation; exactly one
\* payload is delivered when every payload handed to the platform is
\* delivered.  A handler whose own send raises hands over a second payload,
\* the error handler's apology, and none is delivered if that fails too.
C8_AtMostOneDelivered ==
  cur.kind # "none" =>
    /\ Len(cur.run.sent) <= 1
    /\ cur.run.writes <= 1
    /\ IsIgnored => cur.run.handed = <<>>
    /\ (~IsIgnored /\ cur.run.sent = cur.run.handed) => Len(cur.run.sent) = 1
    /\ Len(cur.run.handed) <= 2
    /\ Len(cur.run.handed) = 2 => cur.run.raised

C8_ApologyAfterFailedSend ==
  /\ IsText /\ cur.pre = "price" /\ cur.run.raised /\ cur.run.writes = 1
  /\ Len(cur.run.handed) = 2 /\ Len(cur.run.sent) = 1 /\ cur.run.apology

Apology == Static("Sorry, an error occurred. The admin has been notified.")

\* C9 (as stated): every button press is acknowledged, gets exactly the
\* static reply of its token, and leaves the user's PendingIntent as it was.
C9_CallbackStaticReply ==
  IsCallback =>
    /\ cur.run.acked
    /\ cur.run.sent = <<Static(CallbackText(cur.name))>>
    /\ awaiting[cur.user] = cur.pre

\* C9 (amended): a button press never changes the user's PendingIntent,
\* whatever the token and the prior state; when neither the acknowledgement
\* nor the edit raises, the press is acknowledged and exactly the static
\* reply of its token is produced; when one of them raises, the only reply
\* the user can get is the error handler's apology.
C9_CallbackKeepsPending ==
  IsCallback =>
    /\ awaiting[cur.user] = cur.pre /\ asker[cur.user] = cur.by
    /\ cur.run.writes = 0 /\ cur.run.calls = <<>>
    /\ ~cur.run.raised =>
         (cur.run.acked /\ cur.run.sent = <<Static(CallbackText(cur.name))>>)
    /\ cur.run.raised =>
         (cur.run.sent = (IF cur.run.apology THEN <<Apology>> ELSE <<>>))

C9_UnknownTokenWhilePending ==
  /\ IsCallback /\ cur.name = "cmd_other" /\ cur.pre = "disease" /\ ~cur.run.raised
  /\ cur.run.sent = <<Static("Unknown command.")>> /\ awaiting[cur.user] = "disease"

\* C10: a stored PendingIntent changes only by an update of its own user:
\* a free-text message, which removes it, or an argument-less command,
\* which replaces it by that command's tag.  Every other step keeps it.
C10_NoExpiry ==
  [][ \A u \in Users :
        (awaiting[u] # NoneTag /\ awaiting'[u] # awaiting[u]) =>
          /\ cur'.user = u
          /\ \/ cur'.kind = "text" /\ awaiting'[u] = NoneTag
             \/ /\ cur'.kind = "command" /\ cur'.name \in Tags
                /\ Split(cur'.text) = <<>> /\ awaiting'[u] = cur'.name ]_vars

C10_SurvivesStart ==
  /\ cur.kind = "command" /\ cur.name = "start" /\ cur.pre \in Tags
  /\ awaiting[cur.user] = cur.pre

\* the composer composed a weather report for the update just handled
IsReport ==
  /\ cur.kind \in {"command", "text"} /\ cur.gw.kind = "ok" /\ cur.run.handed # <<>>
  /\ cur.run.handed[1].msg = "Weather in"

\* the farmer tip of a weather report
Tip(p) == p.body[Len(p.body)]

\* C11: for every temperature and humidity, the tip of the report is the
\* hot_and_dry note when temperature >= 35 and humidity <= 40, otherwise the
\* hot_and_humid note when temperature >= 30 and humidity >= 60, otherwise
\* the cold note when temperature <= 10, otherwise the normal-conditions
\* text; 36/30, 32/70 and 20/50 give hot_and_dry, hot_and_humid and normal;
\* no report carries the heavy_rain note.
C11_ClassifierOrder ==
  IsReport =>
    LET t == cur.gw.temp
        h == cur.gw.humidity
        tip == Tip(cur.run.handed[1])
    IN /\ (t.some /\ h.some) =>
            tip = (IF t.val >= 35 /\ h.val <= 40
                     THEN "High temperature and low humidity - increase irrigation frequency and mulch soil."
                   ELSE IF t.val >= 30 /\ h.val >= 60
                     THEN "High temp + humidity - risk of fungal diseases; consider preventive fungicide and avoid overhead irrigation at night."
                   ELSE IF t.val <= 10
                     THEN "Low temperatures - protect young seedlings and avoid late irrigation that freezes."
                   ELSE "Normal conditions - follow regular schedule.")
       /\ (t = Some(36) /\ h = Some(30)) => tip = PREPLANNED_WEATHER_NOTES("hot_and_dry")
       /\ (t = Some(32) /\ h = Some(70)) => tip = PREPLANNED_WEATHER_NOTES("hot_and_humid")
       /\ (t = Some(20) /\ h = Some(50)) => tip = PREPLANNED_WEATHER_NOTES("")
       /\ tip # PREPLANNED_WEATHER_NOTES("heavy_rain")

C11_BoundaryHotDry ==
  /\ IsReport /\ cur.gw.temp = Some(35) /\ cur.gw.humidity = Some(40)
  /\ Tip(cur.run.handed[1]) = PREPLANNED_WEATHER_NOTES("hot_and_dry")

\* C12: every report whose temperature is at most 10 carries the cold note,
\* whatever humidity the observation carries, an absent humidity included.
C12_ColdForAnyHumidity ==
  (IsReport /\ cur.gw.temp.some /\ cur.gw.temp.val <= 10) =>
    Tip(cur.run.handed[1]) = PREPLANNED_WEATHER_NOTES("cold")

\* a symptom text reached send_disease_advice by either path
IsDiseaseQuery(t) ==
  \/ cur.kind = "command" /\ cur.name = "disease" /\ cur.text = t
  \/ cur.kind = "text" /\ cur.pre = "disease" /\ cur.text = t

LooseSymptoms == <<W("my"), SP, W("leaves"), SP, W("look"), SP, W("yellow")>>

CropKeys == { <<W("wheat")>>, <<W("rice")>>, <<W("maize")>>, <<W("cotton")>> }

\* a crop text reached send_recommendation by either path
IsCropQuery(crop) ==
  /\ Lower(cur.text) = crop
  /\ \/ cur.kind = "command" /\ cur.name = "recommend"
     \/ cur.kind = "text" /\ cur.pre = "recommend"

\* C14: for every crop key of the knowledge base the crop-advice reply has
\* the fertilizer text first, then one (stage, tip) entry per stored pair in
\* the stored order, then the market line when one is stored; for wheat the
\* stages are Sowing, Tillering, Booting/Heading, Maturity, followed by the
\* market line.
C14_StagesInTableOrder ==
  \A crop \in CropKeys :
    IsCropQuery(crop) =>
      /\ cur.run.handed # <<>>
      /\ LET p == cur.run.handed[1]
             g == CROP_GROWTH(crop)
             m == PREPLANNED_MARKET(crop)
             stages == IF g = <<>> THEN 0 ELSE 1 + 2 * Len(g)
         IN /\ p.msg = "Recommendations for"
            /\ p.body[1] = CROP_RECOMMENDATIONS(crop)
            /\ Len(p.body) = 1 + stages + (IF m = <<>> THEN 0 ELSE 4)
            /\ \A k \in 1..Len(g) :
                 p.body[2 * k + 1] = g[k][1] /\ p.body[2 * k + 2] = g[k][2]
            /\ crop = <<W("wheat")>> =>
                 /\ <<p.body[3], p.body[5], p.body[7], p.body[9]>>
                      = <<"Sowing", "Tillering", "Booting/Heading", "Maturity">>
                 /\ SubSeq(p.body, 11, 14)
                      = <<"Market note:", "Rs 2,100 per quintal",
                          "down 2% (mild fall due to local harvest)",
                          "Nearby mandi: Raipur Mandi - good demand from flour mills.">>

C14_RiceStagesSent ==
  /\ IsCropQuery(<<W("rice")>>) /\ cur.kind = "text" /\ Len(cur.run.sent) = 1
  /\ cur.run.sent[1].body[3] = "Nursery/Transplant"
  /\ cur.run.sent[1].body[9] = "Maturity"

\* C15: a weather query whose provider request ends in a non-success
\* response or in a network failure is answered with the check-the-city-name
\* message, and the query makes at most one provider request.
C15_GatewayFailureReported ==
  (cur.kind \in {"command", "text"} /\ cur.gw.kind \in {"status", "neterr"}) =>
    /\ cur.run.requests = 1
    /\ cur.run.handed # <<>>
    /\ cur.run.handed[1].msg = "Could not fetch weather. Check the city name."

\* C16: an update whose handler raised is logged and exactly one apology is
\* handed to the platform for it, delivered or not; the PendingIntent of
\* every other user is as it was; and the dispatcher goes on: the update
\* completes and afterwards every handler of every user can run.
C16_ErrorContained ==
  /\ [][ (cur'.kind # "none" /\ cur'.run.raised) =>
           LET r == cur'.run
           IN /\ r.logged
              /\ Cardinality({ i \in DOMAIN r.handed : r.handed[i] = Apology }) = 1
              /\ r.handed[Len(r.handed)] = Apology
              /\ r.apology <=> (r.sent # <<>> /\ r.sent[Len(r.sent)] = Apology)
              /\ \A v \in Users : v # cur'.user => awaiting'[v] = awaiting[v] ]_vars
  /\ [](cur.kind # "none" => ENABLED NextUpdate)
  /\ [](cur.kind = "none" =>
         \A u \in Users :
           /\ ENABLED StaticCmd(u) /\ ENABLED WeatherCmd(u) /\ ENABLED RecommendCmd(u)
           /\ ENABLED PriceCmd(u) /\ ENABLED DiseaseCmd(u) /\ ENABLED FollowUp(u)
           /\ ENABLED Callback(u))

C16_ApologyLostBesidePending ==
  \E v \in Users :
    /\ cur.kind # "none" /\ cur.run.raised /\ ~cur.run.apology /\ cur.run.sent = <<>>
    /\ v # cur.user /\ awaiting[v] \in Tags

\* C17: for every 200 reply of the provider, however partial, the composer
\* composes a weather report, and every absent field of the observation
\* (condition, temperature, feels-like, humidity, pressure, wind speed,
\* sunrise, sunset) is shown as "N/A".
C17_PartialObservationFormatted ==
  (cur.kind \in {"command", "text"} /\ cur.gw.kind = "ok") =>
    /\ cur.run.handed # <<>>
    /\ cur.run.handed[1].msg = "Weather in"
    /\ LET b == cur.run.handed[1].body
           g == cur.gw
       IN /\ g.cond # "desc" => b[2] = "N/A"
          /\ ~g.temp.some => b[3] = "N/A"
          /\ ~g.feels.some => b[4] = "N/A"
          /\ ~g.humidity.some => b[5] = "N/A"
          /\ ~g.pressure.some => b[6] = "N/A"
          /\ ~g.wind.some => b[7] = "N/A"
          /\ ~g.sunrise.some => b[8] = "N/A"
          /\ ~g.sunset.some => b[9] = "N/A"

\* C19: a stored PendingIntent X means the prompt of X was delivered to the
\* user after their last consumed free text; and an argument-less command
\* whose prompt is not delivered leaves the user's PendingIntent as it was.
C19_PromptBeforeWrite ==
  /\ [](\A u \in Users : awaiting[u] \in Tags => prompted[u] = awaiting[u])
  /\ [][ \A u \in Users :
           (cur'.user = u /\ IsArgLess' /\ cur'.run.sent = <<>>) =>
             awaiting'[u] = awaiting[u] ]_vars

C19_FailedPromptKeepsOlder ==
  /\ IsArgLess /\ cur.run.raised /\ cur.run.sent = <<>>
  /\ cur.pre \in Tags /\ cur.pre # cur.name
  /\ awaiting[cur.user] = cur.pre /\ prompted[cur.user] = cur.pre

\* C20: each user's stored awaiting value is absent or one of the four tags
\* weather, recommend, price, disease, and no update is answered with the
\* "Sorry, I didn't understand" reply of the follow-up handler's last branch.
C20_FinalElseUnreachable ==
  /\ \A u \in Users : awaiting[u] \in {NoneTag, "weather", "recommend", "price", "disease"}
  /\ \A i \in DOMAIN cur.run.handed :
       cur.run.handed[i].msg # "Sorry, I didn't understand. Try /help for commands."

C20_PriceTagConsumed ==
  /\ IsText /\ cur.pre = "price" /\ awaiting[cur.user] = NoneTag
  /\ Len(cur.run.calls) = 1 /\ cur.run.calls[1][1] = "send_price"

\* C18: with updates handled concurrently, one stored PendingIntent leads
\* to at most one composer call, and once that call is made the store is
\* already cleared, at every await of the composer; a free text handled
\* while the store is cleared enters no composer and sends nothing.
C18_ReadClearAtomic ==
  /\ \A u \in Users : invoked[u] <= 1 /\ (invoked[u] = 1 => awaiting[u] = NoneTag)
  /\ (cur.kind = "text" /\ cur.pre = NoneTag) => (cur.run.calls = <<>> /\ cur.run.n = 0)

C18_SecondTextIgnored ==
  \E t \in BagToSet(tasks) :
    /\ t.user = cur.user /\ t.kind = "text"
    /\ Len(t.rest) = 1 /\ t.rest[1].op = "send"
    /\ t.rest[1].payload.msg = "Could not fetch weather. Check the city name."
    /\ invoked[cur.user] = 1
    /\ cur.kind = "text" /\ cur.pre = NoneTag /\ cur.run.calls = <<>> /\ cur.run.n = 0

====
